---- MODULE Spec2Model ----
(***************************************************************************)
(* Personal budget tracker: the reminder due-detection engine              *)
(* (checkReminders), the snooze and dismiss handlers, the reminder form    *)
(* (ReminderModal.handleSubmit) and the reminder store kept through        *)
(* useLocalStorage, the interval effect that runs checkReminders, and      *)
(* login and logout (useAuth, App).                                        *)
(*                                                                         *)
(* Instants are integers counted in units of five minutes, so the ten      *)
(* minutes of a snooze are SnoozeDelay = 2 units.  A due date is a day     *)
(* number and a due time a unit within the day; the two are combined into  *)
(* one instant the way `${dueDate}T${dueTime}` is parsed.                  *)
(***************************************************************************)
EXTENDS Integers, Sequences, FiniteSets, TLC

\* ---- bounds of the model ----
MaxTime == 2
MaxReminders == 2
MaxDay == 1
UnitsPerDay == 2

\* ---- program constants ----
SnoozeDelay == 2

\* the period of setInterval(checkReminders, 30000), as the smallest span the
\* clock of the model resolves
PollInterval == 1

\* absent snoozeUntil (null / undefined)
Null == 0 - 1

\* ---- accounts ----
\* currentUsername = null: nobody is logged in
NoUser == "null"
Usernames == {"u1"}
\* accounts of the model; the keys `reminders_${user.username}` and
\* `transactions_${user.username}` of the two stores of an account
Accounts == {"u1", "u2"}
ItemKeyShared(kind, username) == <<kind, "u1">>
ItemKey(kind, username) == <<kind, username>>
ItemKeys == {"reminders", "transactions"} \X Accounts
\* the password inputs of AuthPage, and the messages of its rejections
Passwords == {"pw", "pw2"}
NoError == ""

\* ---- inputs of the reminder form ----
BillNames == {"rent"}
Amounts == {10}
DueDates == 0..MaxDay
DueTimes == 0..(UnitsPerDay - 1)
SoundChoices == {"default"}

VARIABLES
    now,                  \* wall clock (new Date(), Date.now())
    reminders,            \* BudgetTrackerApp.reminders: the reminder store
    stored,               \* localStorage item reminders_<user>
    activeNotifications,  \* BudgetTrackerApp.activeNotifications: the id of each toast
    reminderToEdit,       \* BudgetTrackerApp.reminderToEdit: <<>> or <<r>>
    isReminderModalOpen,  \* BudgetTrackerApp.isReminderModalOpen
    hidden,               \* document.hidden
    permission,           \* Notification.permission
    dueReminders,         \* checkReminders.dueReminders of the step just taken
    osNotifications,      \* Notification objects created by the step just taken
    audioCues,            \* playNotificationSound calls that played a cue
    interval,             \* the setInterval of the effect: <<>> or <<[reminders, elapsed]>>
    user,                 \* App.user: NoUser or the name of the logged-in user
    transactions,         \* BudgetTrackerApp.transactions: the transaction store
    storedTransactions,   \* localStorage item transactions_<user>
    transactionToEdit,    \* BudgetTrackerApp.transactionToEdit: <<>> or <<t>>
    isTransactionModalOpen, \* BudgetTrackerApp.isTransactionModalOpen
    viewDate,             \* BudgetTrackerApp.viewDate: the local month viewed
    timeZone,             \* offset of local time from UTC, in clock units
    storedText,           \* form of the text of localStorage item reminders_<user>
    crashed,              \* a render of BudgetTrackerApp threw: nothing is mounted
    items,                \* localStorage: the reminders_ and transactions_ item of every account
    users,                \* localStorage item budget_tracker_users: username -> password
    authError,            \* AuthPage.error: the message of the last rejected submit
    everFired,            \* observer: ids of store reminders that a tick has fired
    snoozeWatch           \* observer: snoozes of due reminders not yet re-fired

vars == <<now, reminders, stored, activeNotifications, reminderToEdit,
          isReminderModalOpen, hidden, permission, dueReminders,
          osNotifications, audioCues, interval, user, transactions,
          storedTransactions, transactionToEdit, isTransactionModalOpen,
          viewDate, timeZone, storedText, crashed, items, users, authError, everFired,
          snoozeWatch>>

\* ---- helpers ----
Range(s) == {s[i] : i \in 1..Len(s)}

IdsOf(s) == {s[i].id : i \in 1..Len(s)}

\* new Date(`${r.dueDate}T${r.dueTime}`)
DueInstant(r) == r.dueDate * UnitsPerDay + r.dueTime

IsDueStrict(r, t) == DueInstant(r) < t
IsDueAlways(r, t) == TRUE
\* const isDue = dueDate <= now
IsDue(r, t) == DueInstant(r) <= t

IsSnoozedNever(r, t) == FALSE
\* const isSnoozed = r.snoozeUntil && now < new Date(r.snoozeUntil)
IsSnoozed(r, t) == r.snoozeUntil # Null /\ t < r.snoozeUntil

NewlyDueIgnoresNotified(r, t) == IsDue(r, t) /\ ~IsSnoozed(r, t)
NewlyDueEarly(r, t) == ~r.notified /\ ~IsSnoozed(r, t)
\* if (isDue && !r.notified && !isSnoozed)
NewlyDue(r, t) == IsDue(r, t) /\ ~r.notified /\ ~IsSnoozed(r, t)

MarkNotifiedNot(r) == r
MarkNotifiedClearsSnooze(r) == [r EXCEPT !.notified = TRUE, !.snoozeUntil = Null]
\* return { ...r, notified: true }
MarkNotified(r) == [r EXCEPT !.notified = TRUE]

\* reminders.map(r => ...) of checkReminders
UpdatedReminders(rs, t) ==
    [i \in 1..Len(rs) |-> IF NewlyDue(rs[i], t) THEN MarkNotified(rs[i]) ELSE rs[i]]

\* the dueReminders list filled by the same map
DueRemindersOf(rs, t) == SelectSeq(rs, LAMBDA r : NewlyDue(r, t))

\* playNotificationSound: the cues played for one sound
CuesOf(sound) ==
    CASE sound = "beep" -> <<"beep">>
      [] sound = "chime" -> <<"chime">>
      [] sound = "vibrate" -> <<"vibrate">>
      [] OTHER -> <<>>

RECURSIVE CuesOfAll(_)
CuesOfAll(ds) ==
    IF ds = <<>> THEN <<>>
    ELSE CuesOf(Head(ds).notificationSound) \o CuesOfAll(Tail(ds))

NotificationForLoud(r) ==
    [billName |-> r.billName, amount |-> r.amount, silent |-> FALSE]
\* new Notification('Bill Reminder', { body, silent })
NotificationFor(r) ==
    [billName |-> r.billName, amount |-> r.amount,
     silent |-> (r.notificationSound # "default")]

RECURSIVE NotificationsForAll(_)
NotificationsForAll(ds) ==
    IF ds = <<>> THEN <<>>
    ELSE <<NotificationFor(Head(ds))>> \o NotificationsForAll(Tail(ds))

RECURSIVE AddToastsAppend(_, _)
AddToastsAppend(toasts, ds) ==
    IF ds = <<>> THEN toasts
    ELSE AddToastsAppend(Append(toasts, Head(ds).id), Tail(ds))

\* prev => [...prev.filter(n => n.id !== r.id), r], applied for each fired r
RECURSIVE AddToasts(_, _)
AddToasts(toasts, ds) ==
    IF ds = <<>> THEN toasts
    ELSE AddToasts(
             Append(SelectSeq(toasts, LAMBDA n : n # Head(ds).id), Head(ds).id),
             Tail(ds))

\* prev.filter(n => n.id !== id)
RemoveToastAll(toasts, id) == <<>>
RemoveToast(toasts, id) == SelectSeq(toasts, LAMBDA n : n # id)

\* ---- the reminder store behind useLocalStorage ----

SetRemindersStateOnly(value) ==
    /\ reminders' = value
    /\ stored' = stored
    /\ items' = items
\* setValue: setStoredValue(valueToStore); localStorage.setItem(key, JSON.stringify(valueToStore))
SetReminders(value) ==
    /\ reminders' = value
    /\ stored' = value
    /\ items' = [items EXCEPT ![ItemKey("reminders", user)] = value]

\* useEffect(() => { setInterval(checkReminders, ...) }, [checkReminders]):
\* the interval runs the checkReminders of the render that installed it, which
\* holds the reminders of that render
InstalledAtMount(rs) == <<[reminders |-> <<>>, elapsed |-> 0]>>
Installed(rs) == <<[reminders |-> rs, elapsed |-> 0]>>

\* a state change renders BudgetTrackerApp again; setReminders and so
\* checkReminders are new functions in every render, so the effect clears the
\* interval and installs a new one
Rerender ==
    interval' =
        IF <<reminders', activeNotifications', reminderToEdit', isReminderModalOpen',
             transactions', transactionToEdit', isTransactionModalOpen', viewDate'>>
               = <<reminders, activeNotifications, reminderToEdit, isReminderModalOpen,
                   transactions, transactionToEdit, isTransactionModalOpen, viewDate>>
        THEN interval
        ELSE Installed(reminders')

\* the step took no tick: no reminder fired, no notification, no cue
NoAlerts ==
    /\ dueReminders' = <<>>
    /\ osNotifications' = <<>>
    /\ audioCues' = <<>>

\* the step calls neither setTransactions nor setViewDate nor the transaction
\* form, and the page is not loaded again
NoLedgerTransactionsDropped ==
    /\ transactions' = <<>>
    /\ storedTransactions' = <<>>
    /\ UNCHANGED <<transactionToEdit, isTransactionModalOpen, viewDate,
                   timeZone, storedText, crashed, users, authError>>
NoLedgerChange ==
    UNCHANGED <<transactions, storedTransactions, transactionToEdit,
                isTransactionModalOpen, viewDate, timeZone, storedText, crashed, users, authError>>

\* no transactions, the month of instant 0 viewed, local time = UTC, the
\* reminders item a well-formed array
InitLedger ==
    /\ transactions = <<>>
    /\ storedTransactions = <<>>
    /\ transactionToEdit = <<>>
    /\ isTransactionModalOpen = FALSE
    /\ viewDate = 0
    /\ timeZone = 0
    /\ storedText = "array"
    /\ crashed = FALSE

\* the accounts known at the start, and localStorage holding the two items
\* of the first of them and nothing for the others
KnownUsers == [u \in Usernames |-> "pw"]
InitAccounts ==
    /\ users = KnownUsers
    /\ authError = NoError
    /\ items = [k \in ItemKeys |->
                    IF k = ItemKey("reminders", "u1") THEN stored
                    ELSE IF k = ItemKey("transactions", "u1") THEN storedTransactions
                    ELSE <<>>]

\* the observers are not kept
Unobserved == UNCHANGED <<everFired, snoozeWatch>>

\* ---- initial state: a new user, empty store, the application visible ----
Init ==
    /\ now = 0
    /\ reminders = <<>>
    /\ stored = <<>>
    /\ activeNotifications = <<>>
    /\ reminderToEdit = <<>>
    /\ isReminderModalOpen = FALSE
    /\ hidden = FALSE
    /\ permission \in {"granted", "denied"}
    /\ dueReminders = <<>>
    /\ osNotifications = <<>>
    /\ audioCues = <<>>
    /\ interval = Installed(reminders)
    /\ user \in Usernames
    /\ InitLedger
    /\ everFired = {}
    /\ snoozeWatch = {}
    /\ InitAccounts

\* ---- environment ----

\* the wall clock advances
AdvanceClock ==
    /\ now < MaxTime
    /\ now' = now + 1
    /\ NoAlerts
    /\ UNCHANGED <<reminders, stored, activeNotifications, reminderToEdit,
                   isReminderModalOpen, hidden, permission, interval, user,
                   everFired, snoozeWatch>>
    /\ NoLedgerChange
    /\ UNCHANGED items

\* the tab is hidden or shown (document.hidden)
ToggleVisibility ==
    /\ hidden' = ~hidden
    /\ NoAlerts
    /\ UNCHANGED <<now, reminders, stored, activeNotifications, reminderToEdit,
                   isReminderModalOpen, permission, interval, user,
                   everFired, snoozeWatch>>
    /\ NoLedgerChange
    /\ UNCHANGED items

\* ---- checkReminders, run by the interval ----
CheckRemindersStep ==
    /\ interval # <<>>
    /\ LET due == DueRemindersOf(interval[1].reminders, now)
           updated == UpdatedReminders(interval[1].reminders, now)
       IN  /\ dueReminders' = due
           /\ IF Len(due) > 0
              THEN /\ SetReminders(updated)
                   /\ audioCues' = CuesOfAll(due)
                   /\ IF hidden
                      THEN /\ osNotifications' =
                                  IF permission = "granted"
                                  THEN NotificationsForAll(due) ELSE <<>>
                           /\ UNCHANGED activeNotifications
                      ELSE /\ osNotifications' = <<>>
                           /\ activeNotifications' = AddToasts(activeNotifications, due)
                   /\ interval' = Installed(reminders')
              ELSE /\ audioCues' = <<>>
                   /\ osNotifications' = <<>>
                   /\ interval' = <<[interval[1] EXCEPT !.elapsed = 0]>>
                   /\ UNCHANGED <<reminders, stored, activeNotifications, items>>
    /\ UNCHANGED <<now, reminderToEdit, isReminderModalOpen, hidden, permission, user>>
    /\ NoLedgerChange

CheckReminders == CheckRemindersStep /\ Unobserved

\* ---- reminder handlers of BudgetTrackerApp ----

\* openAddReminderModal
OpenAddReminderModal ==
    /\ reminderToEdit' = <<>>
    /\ isReminderModalOpen' = TRUE
    /\ NoAlerts
    /\ UNCHANGED <<now, reminders, stored, activeNotifications, hidden,
                   permission, user, everFired, snoozeWatch>>
    /\ NoLedgerChange
    /\ UNCHANGED items
    /\ Rerender

\* handleEditReminder(r), r a reminder listed by RemindersView
HandleEditReminder ==
    \E i \in 1..Len(reminders) :
        /\ reminderToEdit' = <<reminders[i]>>
        /\ isReminderModalOpen' = TRUE
        /\ NoAlerts
        /\ UNCHANGED <<now, reminders, stored, activeNotifications, hidden,
                       permission, user, everFired, snoozeWatch>>
        /\ NoLedgerChange
        /\ UNCHANGED items
        /\ Rerender

\* onClose of the reminder form (Cancel, X)
CloseReminderModal ==
    /\ isReminderModalOpen
    /\ isReminderModalOpen' = FALSE
    /\ NoAlerts
    /\ UNCHANGED <<now, reminders, stored, activeNotifications, reminderToEdit,
                   hidden, permission, user, everFired, snoozeWatch>>
    /\ NoLedgerChange
    /\ UNCHANGED items
    /\ Rerender

ShouldResetStatusNever(toEdit, dueDate, dueTime, t) == FALSE
\* shouldResetStatus of ReminderModal.handleSubmit
ShouldResetStatus(toEdit, dueDate, dueTime, t) ==
    /\ toEdit # <<>>
    /\ (toEdit[1].dueDate # dueDate \/ toEdit[1].dueTime # dueTime)
    /\ dueDate * UnitsPerDay + dueTime > t

\* newReminder of ReminderModal.handleSubmit
NewReminder(toEdit, billName, amount, dueDate, dueTime, sound, t) ==
    LET reset == ShouldResetStatus(toEdit, dueDate, dueTime, t)
    IN  [id |-> IF toEdit # <<>> THEN toEdit[1].id ELSE t,
         billName |-> billName,
         amount |-> amount,
         dueDate |-> dueDate,
         dueTime |-> dueTime,
         notificationSound |-> sound,
         notified |-> IF reset THEN FALSE
                      ELSE IF toEdit # <<>> THEN toEdit[1].notified ELSE FALSE,
         snoozeUntil |-> IF reset THEN Null
                         ELSE IF toEdit # <<>> THEN toEdit[1].snoozeUntil ELSE Null]

SavedRemindersAppended(prev, reminder) == Append(prev, reminder)
\* the list handleSaveReminder passes to setReminders
SavedReminders(prev, reminder) ==
    IF \E i \in 1..Len(prev) : prev[i].id = reminder.id
    THEN [i \in 1..Len(prev) |-> IF prev[i].id = reminder.id THEN reminder ELSE prev[i]]
    ELSE Append(prev, reminder)

\* ReminderModal.handleSubmit, then onSave = handleSaveReminder, then onClose
ReminderModalSubmitStep(billName, amount, dueDate, dueTime, sound) ==
    /\ isReminderModalOpen
    /\ LET newReminder == NewReminder(reminderToEdit, billName, amount,
                                      dueDate, dueTime, sound, now)
           saved == SavedReminders(reminders, newReminder)
       IN  /\ Len(saved) <= MaxReminders
           /\ SetReminders(saved)
    /\ reminderToEdit' = <<>>
    /\ isReminderModalOpen' = FALSE
    /\ NoAlerts
    /\ UNCHANGED <<now, activeNotifications, hidden, permission, user>>
    /\ NoLedgerChange
    /\ Rerender

ReminderModalSubmit ==
    \E billName \in BillNames, amount \in Amounts, dueDate \in DueDates,
       dueTime \in DueTimes, sound \in SoundChoices :
        ReminderModalSubmitStep(billName, amount, dueDate, dueTime, sound) /\ Unobserved

RemainingRemindersTail(prev, id) == Tail(prev)
\* reminders.filter(r => r.id !== id) of handleDeleteReminder
RemainingReminders(prev, id) == SelectSeq(prev, LAMBDA r : r.id # id)

\* handleDeleteReminder(id)
HandleDeleteReminderStep(id) ==
    /\ id \in IdsOf(reminders)
    /\ SetReminders(RemainingReminders(reminders, id))
    /\ NoAlerts
    /\ UNCHANGED <<now, activeNotifications, reminderToEdit,
                   isReminderModalOpen, hidden, permission, user>>
    /\ NoLedgerChange
    /\ Rerender

HandleDeleteReminder ==
    \E id \in IdsOf(reminders) : HandleDeleteReminderStep(id) /\ Unobserved

SnoozedStillNotified(r, t) == [r EXCEPT !.snoozeUntil = t + SnoozeDelay]
\* return { ...r, snoozeUntil, notified: false }
Snoozed(r, t) == [r EXCEPT !.snoozeUntil = t + SnoozeDelay, !.notified = FALSE]

SnoozedRemindersAll(prev, id, t) ==
    [i \in 1..Len(prev) |-> Snoozed(prev[i], t)]
\* prev.map(r => r.id === id ? {...} : r) of handleSnoozeReminder
SnoozedReminders(prev, id, t) ==
    [i \in 1..Len(prev) |-> IF prev[i].id = id THEN Snoozed(prev[i], t) ELSE prev[i]]

\* handleSnoozeReminder(id), id the id of a displayed toast
HandleSnoozeReminderStep(id) ==
    /\ id \in Range(activeNotifications)
    /\ SetReminders(SnoozedReminders(reminders, id, now))
    /\ activeNotifications' = RemoveToast(activeNotifications, id)
    /\ NoAlerts
    /\ UNCHANGED <<now, reminderToEdit, isReminderModalOpen, hidden, permission, user>>
    /\ NoLedgerChange
    /\ Rerender

HandleSnoozeReminder ==
    \E id \in Range(activeNotifications) : HandleSnoozeReminderStep(id) /\ Unobserved

\* handleDismissNotification(id), id the id of a displayed toast
HandleDismissNotificationStep(id) ==
    /\ id \in Range(activeNotifications)
    /\ activeNotifications' = RemoveToast(activeNotifications, id)
    /\ NoAlerts
    /\ UNCHANGED <<now, reminders, stored, reminderToEdit, isReminderModalOpen,
                   hidden, permission, user, everFired, snoozeWatch>>
    /\ NoLedgerChange
    /\ UNCHANGED items
    /\ Rerender

HandleDismissNotification ==
    \E id \in Range(activeNotifications) : HandleDismissNotificationStep(id)

\* ---- the application: user actions and interval ticks in any order ----
Next ==
    \/ AdvanceClock
    \/ ToggleVisibility
    \/ CheckReminders
    \/ OpenAddReminderModal
    \/ HandleEditReminder
    \/ CloseReminderModal
    \/ ReminderModalSubmit
    \/ HandleDeleteReminder
    \/ HandleSnoozeReminder
    \/ HandleDismissNotification

Spec == Init /\ [][Next]_vars

\* ---- the engine alone: a persisted store evaluated tick after tick ----

\* a reminder saved by an earlier session and not yet fired
PersistedReminder(i, due) ==
    [id |-> 0 - i, billName |-> "rent", amount |-> 10,
     dueDate |-> due[1], dueTime |-> due[2], notificationSound |-> "default",
     notified |-> FALSE, snoozeUntil |-> Null]

PersistedStores ==
    UNION {{[i \in 1..n |-> PersistedReminder(i, f[i])] :
                f \in [1..n -> DueDates \X DueTimes]} : n \in 0..MaxReminders}

InitTicks ==
    /\ now = 0
    /\ reminders \in PersistedStores
    /\ stored = reminders
    /\ activeNotifications = <<>>
    /\ reminderToEdit = <<>>
    /\ isReminderModalOpen = FALSE
    /\ hidden \in BOOLEAN
    /\ permission \in {"granted", "denied"}
    /\ dueReminders = <<>>
    /\ osNotifications = <<>>
    /\ audioCues = <<>>
    /\ interval = Installed(reminders)
    /\ user \in Usernames
    /\ InitLedger
    /\ everFired = {}
    /\ snoozeWatch = {}
    /\ InitAccounts

\* checkReminders, with the ids it fires recorded
CheckRemindersCounted ==
    /\ CheckRemindersStep
    /\ everFired' = everFired \cup IdsOf(DueRemindersOf(reminders, now))
    /\ UNCHANGED snoozeWatch

NextTicks ==
    \/ AdvanceClock
    \/ CheckRemindersCounted

SpecTicks == InitTicks /\ [][NextTicks]_vars

\* ---- the application with the snoozes of due reminders recorded ----

\* checkReminders: a recorded snooze ends with the first tick at or after its end
CheckRemindersWatched ==
    /\ CheckRemindersStep
    /\ snoozeWatch' = {w \in snoozeWatch : now < w.until}
    /\ UNCHANGED everFired

\* the save replaces the store reminder of this id by a new one (a create), or
\* changes its due date or time
ReplacedOrRescheduled(reminder) ==
    \E i \in 1..Len(reminders) :
        /\ reminders[i].id = reminder.id
        /\ \/ reminderToEdit = <<>>
           \/ reminders[i].dueDate # reminder.dueDate
           \/ reminders[i].dueTime # reminder.dueTime

\* handleSubmit: the record of a snooze is dropped when the reminder is
\* replaced or rescheduled
ReminderModalSubmitWatched ==
    \E billName \in BillNames, amount \in Amounts, dueDate \in DueDates,
       dueTime \in DueTimes, sound \in SoundChoices :
        /\ ReminderModalSubmitStep(billName, amount, dueDate, dueTime, sound)
        /\ LET newReminder == NewReminder(reminderToEdit, billName, amount,
                                          dueDate, dueTime, sound, now)
           IN  snoozeWatch' = IF ReplacedOrRescheduled(newReminder)
                              THEN {w \in snoozeWatch : w.id # newReminder.id}
                              ELSE snoozeWatch
        /\ UNCHANGED everFired

\* handleDeleteReminder: the record of a snooze is dropped with the reminder
HandleDeleteReminderWatched ==
    \E id \in IdsOf(reminders) :
        /\ HandleDeleteReminderStep(id)
        /\ snoozeWatch' = {w \in snoozeWatch : w.id # id}
        /\ UNCHANGED everFired

\* handleSnoozeReminder: the snooze of a due reminder is recorded with its end
HandleSnoozeReminderWatched ==
    \E id \in Range(activeNotifications) :
        /\ HandleSnoozeReminderStep(id)
        /\ snoozeWatch' =
               {w \in snoozeWatch : w.id # id} \cup
               {[id |-> id, until |-> now + SnoozeDelay] : i \in
                    {j \in 1..Len(reminders) :
                         reminders[j].id = id /\ DueInstant(reminders[j]) <= now}}
        /\ UNCHANGED everFired

NextWatched ==
    \/ AdvanceClock
    \/ ToggleVisibility
    \/ CheckRemindersWatched
    \/ OpenAddReminderModal
    \/ HandleEditReminder
    \/ CloseReminderModal
    \/ ReminderModalSubmitWatched
    \/ HandleDeleteReminderWatched
    \/ HandleSnoozeReminderWatched
    \/ HandleDismissNotification

SpecWatched == Init /\ [][NextWatched]_vars

\* ---- the interval timer: a persisted store, the clock and the user at the forms ----

\* the wall clock advances; the period of the interval has not run out yet
AdvanceClockTimed ==
    /\ now < MaxTime
    /\ interval # <<>>
    /\ interval[1].elapsed < PollInterval
    /\ now' = now + 1
    /\ interval' = <<[interval[1] EXCEPT !.elapsed = @ + 1]>>
    /\ NoAlerts
    /\ UNCHANGED <<reminders, stored, activeNotifications, reminderToEdit,
                   isReminderModalOpen, hidden, permission, user,
                   everFired, snoozeWatch>>
    /\ NoLedgerChange
    /\ UNCHANGED items

\* the period has run out: setInterval calls checkReminders
IntervalTick ==
    /\ interval # <<>>
    /\ interval[1].elapsed = PollInterval
    /\ CheckRemindersStep
    /\ Unobserved

NextTimer ==
    \/ AdvanceClockTimed
    \/ IntervalTick
    \/ ToggleVisibility
    \/ OpenAddReminderModal
    \/ HandleEditReminder
    \/ CloseReminderModal
    \/ HandleDismissNotification

SpecTimer == InitTicks /\ [][NextTimer]_vars

\* ---- sessions: a persisted store over logins and logouts ----

ClearedIntervalKept(iv) == iv
\* return () => clearInterval(interval): the cleanup of the effect at unmount
ClearedInterval(iv) == <<>>

\* logout: setCurrentUsername(null); App renders AuthPage, BudgetTrackerApp
\* unmounts and its state is dropped; localStorage stays.  The Logout button
\* is part of what BudgetTrackerApp renders.
Logout ==
    /\ user # NoUser
    /\ ~crashed
    /\ user' = NoUser
    /\ reminders' = <<>>
    /\ activeNotifications' = <<>>
    /\ reminderToEdit' = <<>>
    /\ isReminderModalOpen' = FALSE
    /\ transactions' = <<>>
    /\ transactionToEdit' = <<>>
    /\ isTransactionModalOpen' = FALSE
    /\ viewDate' = 0
    /\ interval' = ClearedInterval(interval)
    /\ NoAlerts
    /\ UNCHANGED <<now, stored, hidden, permission, everFired, snoozeWatch,
                   storedTransactions, timeZone, storedText, crashed, users, authError, items>>

\* the forms the text of a localStorage item can have: a JSON array of
\* records, no item, text that is not JSON, the JSON text null, a JSON object
StoredTexts == {"array", "absent", "unparsable", "null", "object"}

\* item ? JSON.parse(item) : initialValue, and initialValue when that throws:
\* what the text makes the initial state, when it is a list
LoadsList(text) == text \in {"array", "absent", "unparsable"}
LoadedListEmpty(text, value) == <<>>
LoadedList(text, value) == IF text = "array" THEN value ELSE <<>>

\* login of a known user: App renders BudgetTrackerApp, useLocalStorage reads
\* the two items, and the effect installs the interval.  JSON.parse of the
\* text null or of an object succeeds, reminders is then no array and
\* reminders.filter of the first render throws: nothing is mounted.
Login ==
    /\ user = NoUser
    /\ user' \in Usernames
    /\ IF LoadsList(storedText)
       THEN /\ reminders' = LoadedList(storedText, stored)
            /\ transactions' = storedTransactions
            /\ viewDate' = now
            /\ interval' = Installed(reminders')
            /\ crashed' = FALSE
       ELSE /\ crashed' = TRUE
            /\ interval' = <<>>
            /\ UNCHANGED <<reminders, transactions, viewDate>>
    /\ NoAlerts
    /\ UNCHANGED <<now, stored, activeNotifications, reminderToEdit,
                   isReminderModalOpen, hidden, permission, everFired, snoozeWatch,
                   storedTransactions, transactionToEdit, isTransactionModalOpen,
                   timeZone, storedText, items, users, authError>>

\* nobody is logged in; the store of an earlier session is in localStorage
InitSessions ==
    /\ now = 0
    /\ reminders = <<>>
    /\ stored \in PersistedStores
    /\ activeNotifications = <<>>
    /\ reminderToEdit = <<>>
    /\ isReminderModalOpen = FALSE
    /\ hidden \in BOOLEAN
    /\ permission \in {"granted", "denied"}
    /\ dueReminders = <<>>
    /\ osNotifications = <<>>
    /\ audioCues = <<>>
    /\ interval = <<>>
    /\ user = NoUser
    /\ InitLedger
    /\ everFired = {}
    /\ snoozeWatch = {}
    /\ InitAccounts

NextSessions ==
    \/ AdvanceClock
    \/ Login
    \/ Logout
    \/ CheckRemindersCounted

SpecSessions == InitSessions /\ [][NextSessions]_vars

\* ---- sessions over a reminders item of any form ----

\* nobody is logged in; localStorage holds a reminders item of some form
InitLoad ==
    /\ now = 0
    /\ reminders = <<>>
    /\ storedText \in StoredTexts
    /\ stored \in IF storedText = "array" THEN PersistedStores ELSE {<<>>}
    /\ activeNotifications = <<>>
    /\ reminderToEdit = <<>>
    /\ isReminderModalOpen = FALSE
    /\ hidden \in BOOLEAN
    /\ permission \in {"granted", "denied"}
    /\ dueReminders = <<>>
    /\ osNotifications = <<>>
    /\ audioCues = <<>>
    /\ interval = <<>>
    /\ user = NoUser
    /\ transactions = <<>>
    /\ storedTransactions = <<>>
    /\ transactionToEdit = <<>>
    /\ isTransactionModalOpen = FALSE
    /\ viewDate = 0
    /\ timeZone = 0
    /\ crashed = FALSE
    /\ everFired = {}
    /\ snoozeWatch = {}
    /\ InitAccounts

SpecLoad == InitLoad /\ [][NextSessions]_vars

\* ---- routing: a persisted store of reminders of every sound, evaluated ----
\* ---- in the foreground and in the background                           ----

\* Reminder['notificationSound']
Sounds == {"default", "beep", "chime", "vibrate", "none"}

\* a reminder saved by an earlier session with the given sound, not yet fired
SoundReminder(i, due, sound) ==
    [PersistedReminder(i, due) EXCEPT !.notificationSound = sound]

SoundStores ==
    UNION {{[i \in 1..n |-> SoundReminder(i, f[i][1], f[i][2])] :
                f \in [1..n -> (DueDates \X DueTimes) \X Sounds]} :
           n \in 0..MaxReminders}

InitRouting ==
    /\ now = 0
    /\ reminders \in SoundStores
    /\ stored = reminders
    /\ activeNotifications = <<>>
    /\ reminderToEdit = <<>>
    /\ isReminderModalOpen = FALSE
    /\ hidden \in BOOLEAN
    /\ permission \in {"granted", "denied", "default"}
    /\ dueReminders = <<>>
    /\ osNotifications = <<>>
    /\ audioCues = <<>>
    /\ interval = Installed(reminders)
    /\ user \in Usernames
    /\ InitLedger
    /\ everFired = {}
    /\ snoozeWatch = {}
    /\ InitAccounts

\* checkReminders when a side effect of the k-th fired reminder throws: the
\* store has been written, the exception leaves dueReminders.forEach and the
\* reminders after the k-th are not routed.  The audio calls of beep, chime
\* and vibrate can throw, and so can new Notification.
CheckRemindersThrows ==
    /\ interval # <<>>
    /\ LET due == DueRemindersOf(interval[1].reminders, now)
           updated == UpdatedReminders(interval[1].reminders, now)
       IN  \E k \in 1..Len(due), effect \in {"audio", "notification"} :
               /\ effect = "audio" => CuesOf(due[k].notificationSound) # <<>>
               /\ effect = "notification" => (hidden /\ permission = "granted")
               /\ dueReminders' = due
               /\ SetReminders(updated)
               /\ audioCues' =
                      CuesOfAll(SubSeq(due, 1, IF effect = "audio" THEN k - 1 ELSE k))
               /\ IF hidden
                  THEN /\ osNotifications' =
                              IF permission = "granted"
                              THEN NotificationsForAll(SubSeq(due, 1, k - 1)) ELSE <<>>
                       /\ UNCHANGED activeNotifications
                  ELSE /\ osNotifications' = <<>>
                       /\ activeNotifications' =
                              AddToasts(activeNotifications, SubSeq(due, 1, k - 1))
               /\ interval' = Installed(reminders')
    /\ UNCHANGED <<now, reminderToEdit, isReminderModalOpen, hidden, permission, user>>
    /\ NoLedgerChange
    /\ Unobserved

NextRouting ==
    \/ AdvanceClock
    \/ ToggleVisibility
    \/ CheckReminders
    \/ CheckRemindersThrows
    \/ HandleDismissNotification

SpecRouting == InitRouting /\ [][NextRouting]_vars

\* ---- the transaction store and the transaction form ----

\* the most transactions the store of the model holds
MaxTransactions == 2
\* transactions of the model are dated at most this many days before or
\* after day 0
MaxTxDay == 1

\* inputs of the transaction form
TransactionTypes == {"income", "expense"}
TxAmounts == {10, 25}
TxDates == (0 - MaxTxDay)..MaxTxDay

\* the application with both stores: the most reminders and transactions kept,
\* and the amounts and dates typed into the transaction form
LedgerReminders == 1
LedgerTransactions == 1
LedgerAmounts == {10}
LedgerDates == {0}

\* setValue of useLocalStorage for the key transactions_<user>
SetTransactions(value) ==
    /\ transactions' = value
    /\ storedTransactions' = value
    /\ items' = [items EXCEPT ![ItemKey("transactions", user)] = value]

\* the step calls no setter of the reminder side and runs no tick
NoEngineChange ==
    /\ NoAlerts
    /\ UNCHANGED <<now, reminders, stored, activeNotifications, reminderToEdit,
                   isReminderModalOpen, hidden, permission, user,
                   everFired, snoozeWatch>>

\* openAddTransactionModal
OpenAddTransactionModal ==
    /\ transactionToEdit' = <<>>
    /\ isTransactionModalOpen' = TRUE
    /\ NoEngineChange
    /\ UNCHANGED <<transactions, storedTransactions, viewDate, timeZone,
                   storedText, crashed, users, authError, items>>
    /\ Rerender

\* handleEditTransaction(t), t a transaction of the store
HandleEditTransaction ==
    \E i \in 1..Len(transactions) :
        /\ transactionToEdit' = <<transactions[i]>>
        /\ isTransactionModalOpen' = TRUE
        /\ NoEngineChange
        /\ UNCHANGED <<transactions, storedTransactions, viewDate, timeZone,
                       storedText, crashed, users, authError, items>>
        /\ Rerender

\* onClose of the transaction form (Cancel, X)
CloseTransactionModal ==
    /\ isTransactionModalOpen
    /\ isTransactionModalOpen' = FALSE
    /\ NoEngineChange
    /\ UNCHANGED <<transactions, storedTransactions, transactionToEdit,
                   viewDate, timeZone, storedText, crashed, users, authError, items>>
    /\ Rerender

\* newTransaction of TransactionModal.handleSubmit
NewTransaction(toEdit, type, amount, date, t) ==
    [id |-> IF toEdit # <<>> THEN toEdit[1].id ELSE t,
     type |-> type,
     amount |-> amount,
     category |-> "bills",
     date |-> date,
     description |-> ""]

\* the list handleSaveTransaction passes to setTransactions
SavedTransactions(prev, transaction) ==
    IF \E i \in 1..Len(prev) : prev[i].id = transaction.id
    THEN [i \in 1..Len(prev) |->
              IF prev[i].id = transaction.id THEN transaction ELSE prev[i]]
    ELSE Append(prev, transaction)

\* TransactionModal.handleSubmit, then onSave = handleSaveTransaction, then onClose
TransactionModalSubmitStep(type, amount, date) ==
    /\ isTransactionModalOpen
    /\ LET newTransaction == NewTransaction(transactionToEdit, type, amount, date, now)
           saved == SavedTransactions(transactions, newTransaction)
       IN  /\ Len(saved) <= MaxTransactions
           /\ SetTransactions(saved)
    /\ transactionToEdit' = <<>>
    /\ isTransactionModalOpen' = FALSE
    /\ NoEngineChange
    /\ UNCHANGED <<viewDate, timeZone, storedText, crashed, users, authError>>
    /\ Rerender

\* the form submitted with one of the inputs of the model, the store kept
\* within LedgerTransactions
TransactionModalSubmit ==
    \E type \in TransactionTypes, amount \in LedgerAmounts, date \in LedgerDates :
        /\ TransactionModalSubmitStep(type, amount, date)
        /\ Len(transactions') <= LedgerTransactions

\* handleDeleteTransaction(id)
HandleDeleteTransactionStep(id) ==
    /\ id \in IdsOf(transactions)
    /\ SetTransactions(SelectSeq(transactions, LAMBDA t : t.id # id))
    /\ NoEngineChange
    /\ UNCHANGED <<transactionToEdit, isTransactionModalOpen, viewDate,
                   timeZone, storedText, crashed, users, authError>>
    /\ Rerender

HandleDeleteTransaction ==
    \E id \in IdsOf(transactions) : HandleDeleteTransactionStep(id)

\* ---- the application with both stores: reminders and transactions ----

\* the reminder form submitted, the store kept within LedgerReminders
ReminderModalSubmitLedger ==
    /\ ReminderModalSubmit
    /\ Len(reminders') <= LedgerReminders

NextLedger ==
    \/ AdvanceClock
    \/ ToggleVisibility
    \/ CheckReminders
    \/ OpenAddReminderModal
    \/ HandleEditReminder
    \/ CloseReminderModal
    \/ ReminderModalSubmitLedger
    \/ HandleDeleteReminder
    \/ HandleSnoozeReminder
    \/ HandleDismissNotification
    \/ OpenAddTransactionModal
    \/ HandleEditTransaction
    \/ CloseTransactionModal
    \/ TransactionModalSubmit
    \/ HandleDeleteTransaction

SpecLedger == Init /\ [][NextLedger]_vars

\* ---- the calendar, the month filter and the summary totals ----

\* days of a month and months of a year of the calendar of the model
DaysPerMonth == 2
MonthsPerYear == 2
\* the largest offset of local time from UTC, in clock units
MaxOffset == 1
TimeZones == (0 - MaxOffset)..MaxOffset
\* the navigator is taken at most this many months before the month of instant 0
MaxMonthsBack == 2

\* new Date('YYYY-MM-DD'): a date-only text is parsed as midnight UTC of that
\* day; the result as a reading of the local clock, tz ahead of UTC
ParseDateOnly(date, tz) == date * UnitsPerDay + tz

\* Date.getFullYear() and Date.getMonth(): the local calendar fields of an instant
GetFullYear(t) == ((t \div UnitsPerDay) \div DaysPerMonth) \div MonthsPerYear
GetMonth(t) == ((t \div UnitsPerDay) \div DaysPerMonth) % MonthsPerYear

\* the predicate of filteredTransactions and of filteredReminders
InView(date, view, tz) ==
    LET tDate == ParseDateOnly(date, tz)
    IN  /\ GetFullYear(tDate) = GetFullYear(view)
        /\ GetMonth(tDate) = GetMonth(view)

FilteredTransactions(ts, view, tz) == SelectSeq(ts, LAMBDA t : InView(t.date, view, tz))
FilteredReminders(rs, view, tz) == SelectSeq(rs, LAMBDA r : InView(r.dueDate, view, tz))

\* reduce((sum, t) => sum + t.amount, 0)
RECURSIVE SumAmounts(_)
SumAmounts(ts) == IF ts = <<>> THEN 0 ELSE ts[1].amount + SumAmounts(Tail(ts))

\* the totals useMemo over filteredTransactions
Totals(filtered) ==
    LET income == SumAmounts(SelectSeq(filtered, LAMBDA t : t.type = "income"))
        expenses == SumAmounts(SelectSeq(filtered, LAMBDA t : t.type = "expense"))
    IN  [totalIncome |-> income, totalExpenses |-> expenses, balance |-> income - expenses]

\* new Date(year, month, 1): local midnight of the first day of the month;
\* a month outside 0..MonthsPerYear-1 carries into the year
FirstOfMonth(year, month) == ((year * MonthsPerYear + month) * DaysPerMonth) * UnitsPerDay

\* setViewDate gives the state a new Date object: BudgetTrackerApp renders
\* again and the effect installs the interval again
SetViewDate(date) ==
    /\ viewDate' = date
    /\ interval' = Installed(reminders)

\* isCurrentMonth of MonthNavigator: the month viewed is the month of today.
\* The memo is computed when viewDate changes; the clock of the model stays
\* within one month, so the value then is the value now.
IsCurrentMonth ==
    /\ GetFullYear(now) = GetFullYear(viewDate)
    /\ GetMonth(now) = GetMonth(viewDate)

\* MonthNavigator.changeMonth(amount)
ChangeMonth(amount) ==
    /\ LET newDate == FirstOfMonth(GetFullYear(viewDate), GetMonth(viewDate) + amount)
       IN  SetViewDate(newDate)
    /\ NoAlerts
    /\ UNCHANGED <<now, reminders, stored, activeNotifications, reminderToEdit,
                   isReminderModalOpen, hidden, permission, user,
                   everFired, snoozeWatch>>
    /\ UNCHANGED <<transactions, storedTransactions, transactionToEdit,
                   isTransactionModalOpen, timeZone, storedText, crashed, users, authError, items>>

\* the button Previous month
ChangeMonthBack ==
    /\ viewDate >= FirstOfMonth(0, 1 - MaxMonthsBack)
    /\ ChangeMonth(0 - 1)
\* the button Next month, disabled={isCurrentMonth}
ChangeMonthForward == ~IsCurrentMonth /\ ChangeMonth(1)

\* MonthNavigator.goToCurrentMonth; the button is rendered when !isCurrentMonth
GoToCurrentMonth ==
    /\ ~IsCurrentMonth
    /\ SetViewDate(now)
    /\ NoAlerts
    /\ UNCHANGED <<now, reminders, stored, activeNotifications, reminderToEdit,
                   isReminderModalOpen, hidden, permission, user,
                   everFired, snoozeWatch>>
    /\ UNCHANGED <<transactions, storedTransactions, transactionToEdit,
                   isTransactionModalOpen, timeZone, storedText, crashed, users, authError, items>>

\* a transaction saved by an earlier session
PersistedTransaction(i, t) ==
    [id |-> 0 - i, type |-> t[1], amount |-> t[2], category |-> "bills",
     date |-> t[3], description |-> ""]

PersistedLedgers ==
    UNION {{[i \in 1..n |-> PersistedTransaction(i, f[i])] :
                f \in [1..n -> TransactionTypes \X TxAmounts \X TxDates]} :
           n \in 0..MaxTransactions}

\* the application mounted over persisted stores, in some time zone, the
\* month of the mount viewed
InitMonths ==
    /\ now = 0
    /\ reminders \in {rs \in PersistedStores : Len(rs) <= 1}
    /\ stored = reminders
    /\ activeNotifications = <<>>
    /\ reminderToEdit = <<>>
    /\ isReminderModalOpen = FALSE
    /\ hidden = FALSE
    /\ permission = "granted"
    /\ dueReminders = <<>>
    /\ osNotifications = <<>>
    /\ audioCues = <<>>
    /\ interval = Installed(reminders)
    /\ user \in Usernames
    /\ transactions \in PersistedLedgers
    /\ storedTransactions = transactions
    /\ transactionToEdit = <<>>
    /\ isTransactionModalOpen = FALSE
    /\ viewDate = now
    /\ timeZone \in TimeZones
    /\ storedText = "array"
    /\ crashed = FALSE
    /\ everFired = {}
    /\ snoozeWatch = {}
    /\ InitAccounts

NextMonths ==
    \/ AdvanceClock
    \/ CheckRemindersCounted
    \/ ChangeMonthBack
    \/ ChangeMonthForward
    \/ GoToCurrentMonth

SpecMonths == InitMonths /\ [][NextMonths]_vars

\* ---- the interval timer while the user goes through the months ----

NextView ==
    \/ AdvanceClockTimed
    \/ IntervalTick
    \/ ChangeMonthBack
    \/ ChangeMonthForward
    \/ GoToCurrentMonth

SpecView == InitMonths /\ [][NextView]_vars

\* ---- the application with the fired reminders recorded until re-armed ----

\* the save creates the reminder, or moves the due date/time of the store
\* reminder of this id to an instant in the future
CreatedOrRescheduledAhead(reminder) ==
    \/ reminderToEdit = <<>>
    \/ \E i \in 1..Len(reminders) :
           /\ reminders[i].id = reminder.id
           /\ (reminders[i].dueDate # reminder.dueDate
                  \/ reminders[i].dueTime # reminder.dueTime)
           /\ DueInstant(reminder) > now

\* handleSubmit: a created reminder and one rescheduled to the future are
\* armed; the store is kept within LedgerReminders
ReminderModalSubmitArmed ==
    \E billName \in BillNames, amount \in Amounts, dueDate \in DueDates,
       dueTime \in DueTimes, sound \in SoundChoices :
        /\ ReminderModalSubmitStep(billName, amount, dueDate, dueTime, sound)
        /\ Len(reminders') <= LedgerReminders
        /\ LET newReminder == NewReminder(reminderToEdit, billName, amount,
                                          dueDate, dueTime, sound, now)
           IN  everFired' = IF CreatedOrRescheduledAhead(newReminder)
                            THEN everFired \ {newReminder.id}
                            ELSE everFired
        /\ UNCHANGED snoozeWatch

\* handleDeleteReminder: the reminder is gone
HandleDeleteReminderArmed ==
    \E id \in IdsOf(reminders) :
        /\ HandleDeleteReminderStep(id)
        /\ everFired' = everFired \ {id}
        /\ UNCHANGED snoozeWatch

\* handleSnoozeReminder: the snoozed reminder is armed again
HandleSnoozeReminderArmed ==
    \E id \in Range(activeNotifications) :
        /\ HandleSnoozeReminderStep(id)
        /\ everFired' = everFired \ {id}
        /\ UNCHANGED snoozeWatch

NextArmed ==
    \/ AdvanceClock
    \/ ToggleVisibility
    \/ CheckRemindersCounted
    \/ OpenAddReminderModal
    \/ HandleEditReminder
    \/ CloseReminderModal
    \/ ReminderModalSubmitArmed
    \/ HandleDeleteReminderArmed
    \/ HandleSnoozeReminderArmed
    \/ HandleDismissNotification

SpecArmed == Init /\ [][NextArmed]_vars

\* ---- the toasts: a persisted store evaluated in the foreground, the ----
\* ---- user at the toasts                                              ----

InitToasts ==
    /\ InitTicks
    /\ ~hidden

NextToasts ==
    \/ AdvanceClock
    \/ CheckRemindersCounted
    \/ HandleSnoozeReminderArmed
    \/ HandleDismissNotification

SpecToasts == InitToasts /\ [][NextToasts]_vars

\* ---- the application, visible, over reloads of the page ----

\* the page is loaded again: budget_tracker_currentUser is persisted, so App
\* renders BudgetTrackerApp for the same user; every useState starts anew,
\* useLocalStorage reads the two items, the effect installs the interval
Reload ==
    /\ user # NoUser
    /\ ~crashed
    /\ IF LoadsList(storedText)
       THEN /\ reminders' = LoadedList(storedText, stored)
            /\ transactions' = storedTransactions
            /\ interval' = Installed(reminders')
            /\ crashed' = FALSE
       ELSE /\ crashed' = TRUE
            /\ interval' = <<>>
            /\ reminders' = <<>>
            /\ transactions' = <<>>
    /\ activeNotifications' = <<>>
    /\ reminderToEdit' = <<>>
    /\ isReminderModalOpen' = FALSE
    /\ transactionToEdit' = <<>>
    /\ isTransactionModalOpen' = FALSE
    /\ viewDate' = now
    /\ NoAlerts
    /\ UNCHANGED <<now, stored, hidden, permission, user, everFired, snoozeWatch,
                   storedTransactions, timeZone, storedText, items, users, authError>>

NextReload ==
    \/ AdvanceClock
    \/ CheckReminders
    \/ OpenAddReminderModal
    \/ HandleEditReminder
    \/ CloseReminderModal
    \/ ReminderModalSubmit
    \/ HandleDeleteReminder
    \/ HandleSnoozeReminder
    \/ HandleDismissNotification
    \/ Reload

SpecReload == Init /\ [][NextReload]_vars

\* ---- accounts: signup, login, and the stores of each account ----

\* users[username] is truthy: a password is stored under the name
Registered(username) == username \in DOMAIN users

\* { ...prev, [username]: password }
WithUser(prev, username, password) ==
    [n \in DOMAIN prev \cup {username} |->
        IF n = username THEN password ELSE prev[n]]

\* the conditions under which signup rejects
SignupRejectsEmptyOnly(username, password) ==
    username = "" \/ password = ""
SignupRejects(username, password) ==
    username = "" \/ password = "" \/ Registered(username)

\* the condition under which login rejects
LoginRejects(username, password) ==
    ~Registered(username) \/ users[username] # password

\* BudgetTrackerApp and AuthPage are mounted in turn
Mounted == user # NoUser /\ ~crashed

\* setCurrentUsername(username): App renders BudgetTrackerApp for the user,
\* the two hooks read the items of the keys of that user, and the effect
\* installs the interval; AuthPage and its error are gone
Mount(username) ==
    /\ user' = username
    /\ reminders' = items[ItemKey("reminders", username)]
    /\ stored' = items[ItemKey("reminders", username)]
    /\ transactions' = items[ItemKey("transactions", username)]
    /\ storedTransactions' = items[ItemKey("transactions", username)]
    /\ viewDate' = now
    /\ interval' = Installed(reminders')
    /\ authError' = NoError
    /\ NoAlerts
    /\ UNCHANGED <<now, activeNotifications, reminderToEdit, isReminderModalOpen,
                   hidden, permission, everFired, snoozeWatch, transactionToEdit,
                   isTransactionModalOpen, timeZone, storedText, crashed, items>>

\* reject(new Error(message)): handleSubmit of AuthPage shows the message
Rejected(message) ==
    /\ authError' = message
    /\ NoAlerts
    /\ UNCHANGED <<now, reminders, stored, activeNotifications, reminderToEdit,
                   isReminderModalOpen, hidden, permission, interval, user,
                   everFired, snoozeWatch, transactions, storedTransactions,
                   transactionToEdit, isTransactionModalOpen, viewDate, timeZone,
                   storedText, crashed, items, users>>

\* signup(username, password), called by handleSubmit of AuthPage.  The form
\* marks both inputs required; the empty inputs are those of the function.
SignupStep(username, password) ==
    /\ user = NoUser
    /\ IF SignupRejects(username, password)
       THEN Rejected(IF username = "" \/ password = "" THEN "required" ELSE "exists")
       ELSE /\ users' = WithUser(users, username, password)
            /\ Mount(username)

Signup ==
    \E username \in Accounts \cup {""}, password \in Passwords \cup {""} :
        SignupStep(username, password)

\* login(username, password), called by handleSubmit of AuthPage
LoginStep(username, password) ==
    /\ user = NoUser
    /\ IF LoginRejects(username, password)
       THEN Rejected("invalid")
       ELSE /\ Mount(username)
            /\ UNCHANGED users

LoginAs ==
    \E username \in Accounts, password \in Passwords : LoginStep(username, password)

\* the buttons of BudgetTrackerApp that open the two forms
AddReminderButton == Mounted /\ OpenAddReminderModal
AddTransactionButton == Mounted /\ OpenAddTransactionModal

\* no account yet, nobody logged in, localStorage empty
InitAuth ==
    /\ now = 0
    /\ reminders = <<>>
    /\ stored = <<>>
    /\ activeNotifications = <<>>
    /\ reminderToEdit = <<>>
    /\ isReminderModalOpen = FALSE
    /\ hidden = FALSE
    /\ permission = "granted"
    /\ dueReminders = <<>>
    /\ osNotifications = <<>>
    /\ audioCues = <<>>
    /\ interval = <<>>
    /\ user = NoUser
    /\ InitLedger
    /\ everFired = {}
    /\ snoozeWatch = {}
    /\ users = [n \in {} |-> ""]
    /\ authError = NoError
    /\ items = [k \in ItemKeys |-> <<>>]

\* two accounts have signed up and logged out again
InitAccountsOut ==
    /\ now = 0
    /\ reminders = <<>>
    /\ stored = <<>>
    /\ activeNotifications = <<>>
    /\ reminderToEdit = <<>>
    /\ isReminderModalOpen = FALSE
    /\ hidden = FALSE
    /\ permission = "granted"
    /\ dueReminders = <<>>
    /\ osNotifications = <<>>
    /\ audioCues = <<>>
    /\ interval = <<>>
    /\ user = NoUser
    /\ InitLedger
    /\ everFired = {}
    /\ snoozeWatch = {}
    /\ users = [n \in Accounts |-> "pw"]
    /\ authError = NoError
    /\ items = [k \in ItemKeys |-> <<>>]

NextSignup ==
    \/ AdvanceClock
    \/ Signup
    \/ LoginAs
    \/ Logout
    \/ AddReminderButton
    \/ ReminderModalSubmitLedger
    \/ HandleDeleteReminder

SpecSignup == InitAuth /\ [][NextSignup]_vars

\* the two forms, with one choice of input each and one record per store
ReminderModalSubmitAccounts ==
    /\ ReminderModalSubmitStep("rent", 10, 0, 1, "default")
    /\ Unobserved
    /\ Len(reminders') <= LedgerReminders

TransactionModalSubmitAccounts ==
    /\ TransactionModalSubmitStep("expense", 10, 0)
    /\ Len(transactions') <= LedgerTransactions

NextAccounts ==
    \/ AdvanceClock
    \/ LoginAs
    \/ Logout
    \/ CheckReminders
    \/ AddReminderButton
    \/ HandleEditReminder
    \/ ReminderModalSubmitAccounts
    \/ HandleDeleteReminder
    \/ HandleSnoozeReminder
    \/ AddTransactionButton
    \/ TransactionModalSubmitAccounts
    \/ HandleDeleteTransaction

SpecAccounts == InitAccountsOut /\ [][NextAccounts]_vars

\* ---- the expense breakdown of the dashboard ----

\* categories typed into the form of a transaction; the last two are also
\* names of properties every object literal inherits from Object.prototype
Categories == {"food", "rent", "toString", "__proto__"}
InheritedNames == {"toString", "__proto__"}

\* the values an entry of expenseByCategory can hold: a number, or the text
\* that + makes of a function, an object or a text and a number
NumberValue(n) == [isNumber |-> TRUE, n |-> n]
TextValue == [isNumber |-> FALSE, n |-> 0]

\* acc[t.category] = (acc[t.category] || 0) + t.amount on the object acc.
\* Reading a name acc does not own gives the inherited property when there
\* is one (a function or an object, truthy) and undefined otherwise; writing
\* __proto__ runs the inherited setter, which ignores a text.
Accumulate(acc, t) ==
    LET c == t.category
        value == IF c \in DOMAIN acc
                 THEN IF acc[c].isNumber
                      THEN NumberValue(acc[c].n + t.amount)
                      ELSE TextValue
                 ELSE IF c \in InheritedNames
                      THEN TextValue
                      ELSE NumberValue(t.amount)
    IN  IF c = "__proto__"
        THEN acc
        ELSE [k \in DOMAIN acc \cup {c} |-> IF k = c THEN value ELSE acc[k]]

RECURSIVE Reduce(_, _)
Reduce(acc, ts) == IF ts = <<>> THEN acc ELSE Reduce(Accumulate(acc, ts[1]), Tail(ts))

\* expenseData of ExpensePieChart over its transactions prop: name -> value
\* for the entries of expenseByCategory
ExpenseData(ts) ==
    Reduce([k \in {} |-> TextValue], SelectSeq(ts, LAMBDA t : t.type = "expense"))

\* DashboardView is given filteredTransactions
DashboardExpenseData ==
    ExpenseData(FilteredTransactions(transactions, viewDate, timeZone))

\* a transaction saved by an earlier session under a category
CategorisedTransaction(i, t) ==
    [id |-> 0 - i, type |-> t[1], amount |-> t[2], category |-> t[4],
     date |-> t[3], description |-> ""]

CategorisedLedgers ==
    UNION {{[i \in 1..n |-> CategorisedTransaction(i, f[i])] :
                f \in [1..n -> TransactionTypes \X TxAmounts \X TxDates \X Categories]} :
           n \in 0..MaxTransactions}

\* the application mounted over a persisted ledger, local time being UTC
InitBreakdown ==
    /\ now = 0
    /\ reminders = <<>>
    /\ stored = <<>>
    /\ activeNotifications = <<>>
    /\ reminderToEdit = <<>>
    /\ isReminderModalOpen = FALSE
    /\ hidden = FALSE
    /\ permission = "granted"
    /\ dueReminders = <<>>
    /\ osNotifications = <<>>
    /\ audioCues = <<>>
    /\ interval = Installed(reminders)
    /\ user \in Usernames
    /\ transactions \in CategorisedLedgers
    /\ storedTransactions = transactions
    /\ transactionToEdit = <<>>
    /\ isTransactionModalOpen = FALSE
    /\ viewDate = now
    /\ timeZone = 0
    /\ storedText = "array"
    /\ crashed = FALSE
    /\ everFired = {}
    /\ snoozeWatch = {}
    /\ InitAccounts

NextBreakdown ==
    \/ AdvanceClock
    \/ ChangeMonthBack
    \/ ChangeMonthForward
    \/ GoToCurrentMonth
    \/ HandleDeleteTransaction

SpecBreakdown == InitBreakdown /\ [][NextBreakdown]_vars

\* ---- properties ----

\* ids of the reminders fired by the step just taken
FiredIds == IdsOf(dueReminders)

\* a step of ReminderModal.handleSubmit
SubmitStep ==
    \E billName \in BillNames, amount \in Amounts, dueDate \in DueDates,
       dueTime \in DueTimes, sound \in SoundChoices :
        ReminderModalSubmitStep(billName, amount, dueDate, dueTime, sound)

\* a step of handleSnoozeReminder
SnoozeStep == \E id \in Range(activeNotifications) : HandleSnoozeReminderStep(id)

\* C1: an evaluation at time now fires exactly the store reminders whose
\* due-instant is <= now, that are not notified and that are not snoozed
\* (snoozeUntil absent or now >= snoozeUntil), every such reminder and no other.
C1_FiredIffEligible ==
    [][CheckRemindersStep =>
        dueReminders' = SelectSeq(reminders, LAMBDA r :
            /\ r.dueDate * UnitsPerDay + r.dueTime <= now
            /\ r.notified = FALSE
            /\ (r.snoozeUntil = Null \/ now >= r.snoozeUntil))]_vars

\* a tick fired a reminder due exactly now and left another store reminder
C1_Witness ==
    /\ \E i \in 1..Len(dueReminders) :
           dueReminders[i].dueDate * UnitsPerDay + dueReminders[i].dueTime = now
    /\ Len(reminders) > Len(dueReminders)

\* C2: over the ticks of an advancing clock, a reminder with a fixed due
\* date/time that is never snoozed is fired on exactly one tick, the first one
\* with dueInstant <= now: a tick fires it iff it is due and no earlier tick
\* fired it.
C2_ExactlyOnce ==
    [][CheckRemindersStep =>
        \A i \in 1..Len(reminders) :
            (reminders[i].id \in IdsOf(dueReminders')) <=>
                (/\ reminders[i].dueDate * UnitsPerDay + reminders[i].dueTime <= now
                 /\ reminders[i].id \notin everFired)]_vars

\* a tick fires one reminder and not another one that an earlier tick fired
C2_Witness ==
    /\ dueReminders # <<>>
    /\ \E i \in 1..Len(reminders) :
           /\ reminders[i].id \in everFired
           /\ reminders[i].id \notin FiredIds
           /\ reminders[i].dueDate * UnitsPerDay + reminders[i].dueTime < now

\* C3: an evaluation never fires a reminder whose snoozeUntil is set and
\* strictly greater than now, whatever its notified flag and due-instant, and
\* leaves it as it is.
C3_SnoozeSuppression ==
    [][CheckRemindersStep =>
        \A i \in 1..Len(reminders) :
            (reminders[i].snoozeUntil # Null /\ reminders[i].snoozeUntil > now) =>
                /\ reminders[i].id \notin IdsOf(dueReminders')
                /\ reminders'[i] = reminders[i]]_vars

\* a tick fired a reminder and left a due, not notified reminder that is snoozed
C3_Witness ==
    /\ dueReminders # <<>>
    /\ \E i \in 1..Len(reminders) :
           /\ reminders[i].snoozeUntil # Null
           /\ reminders[i].snoozeUntil > now
           /\ ~reminders[i].notified
           /\ reminders[i].dueDate * UnitsPerDay + reminders[i].dueTime <= now
           /\ reminders[i].id \notin FiredIds

\* C4: after any sequence of create, edit, delete, snooze, dismiss and tick,
\* no tick fires, alerts or marks notified a reminder whose current due-instant
\* is strictly greater than now.
C4_NoPrematureFire ==
    [][CheckRemindersStep =>
        \A i \in 1..Len(reminders) :
            (reminders[i].dueDate * UnitsPerDay + reminders[i].dueTime > now) =>
                /\ reminders[i].id \notin IdsOf(dueReminders')
                /\ reminders'[i].notified = reminders[i].notified
                /\ (reminders[i].id \in Range(activeNotifications')
                        => reminders[i].id \in Range(activeNotifications))]_vars

\* a tick fired a reminder and left a fresh reminder that is due later
C4_Witness ==
    /\ dueReminders # <<>>
    /\ \E i \in 1..Len(reminders) :
           /\ reminders[i].dueDate * UnitsPerDay + reminders[i].dueTime > now
           /\ ~reminders[i].notified
           /\ reminders[i].snoozeUntil = Null
           /\ reminders[i].id \notin FiredIds

\* C5: evaluating the set an evaluation has produced again at the same instant
\* fires nothing and leaves the set unchanged.
C5_Idempotent ==
    [][CheckRemindersStep =>
        /\ DueRemindersOf(reminders', now') = <<>>
        /\ UpdatedReminders(reminders', now') = reminders']_vars

\* a tick fired every reminder of a store of two
C5_Witness ==
    /\ Len(dueReminders) = 2
    /\ Len(reminders) = 2
    /\ \A i \in 1..2 : reminders[i].notified

\* C6: an evaluation changes the store only by setting notified on the
\* reminders it fires: their other fields, the other reminders, the length and
\* the order are unchanged, and nothing is written when nothing is newly due.
C6_TickFrame ==
    [][CheckRemindersStep =>
        /\ Len(reminders') = Len(reminders)
        /\ \A i \in 1..Len(reminders) :
               reminders'[i] =
                   IF reminders[i].id \in IdsOf(dueReminders')
                   THEN [reminders[i] EXCEPT !.notified = TRUE]
                   ELSE reminders[i]
        /\ stored' = IF dueReminders' = <<>> THEN stored ELSE reminders']_vars

\* a tick fired a reminder whose snooze had ended and left another reminder
C6_Witness ==
    /\ Len(reminders) = 2
    /\ Len(dueReminders) = 1
    /\ dueReminders[1].snoozeUntil # Null
    /\ \E i \in 1..2 : reminders[i] = [dueReminders[1] EXCEPT !.notified = TRUE]

\* C7: a due reminder snoozed at t, then neither deleted nor rescheduled, is
\* fired by no tick with now < t + 10 minutes and is fired by the first tick
\* with now >= t + 10 minutes, whatever else the user does meanwhile.
C7_SnoozeThenRefire ==
    [][CheckRemindersStep =>
        \A w \in snoozeWatch :
            /\ now < w.until => w.id \notin IdsOf(dueReminders')
            /\ now >= w.until => w.id \in IdsOf(dueReminders')]_vars

\* C8: snooze of id sets snoozeUntil = now + 10 minutes and notified = false on
\* the store reminder with that id, removes the toast of that id, and leaves
\* every other reminder and toast unchanged.
C8_SnoozeFrame ==
    [][SnoozeStep =>
        \E id \in Range(activeNotifications) :
            /\ activeNotifications' = SelectSeq(activeNotifications, LAMBDA n : n # id)
            /\ Len(reminders') = Len(reminders)
            /\ \A i \in 1..Len(reminders) :
                   reminders'[i] =
                       IF reminders[i].id = id
                       THEN [reminders[i] EXCEPT !.snoozeUntil = now + SnoozeDelay,
                                                 !.notified = FALSE]
                       ELSE reminders[i]]_vars

\* a reminder was just snoozed, its toast is gone, another reminder's toast stays
C8_Witness ==
    /\ Len(reminders) = 2
    /\ \E i, j \in 1..2 :
           /\ i # j
           /\ reminders[i].snoozeUntil = now + SnoozeDelay
           /\ ~reminders[i].notified
           /\ reminders[i].id \notin Range(activeNotifications)
           /\ reminders[j].id \in Range(activeNotifications)
           /\ reminders[j].notified
           /\ reminders[j].snoozeUntil = Null

\* C9: saving an edit that changes the due date or time of an existing
\* reminder to an instant strictly later than the submission time leaves it
\* with notified = false and snoozeUntil = null, so that the first tick at or
\* after the new due-instant fires it.
C9_EditRearms ==
    [][(SubmitStep /\ reminderToEdit # <<>>) =>
        \A i \in 1..Len(reminders) :
            (/\ reminders[i].id = reminderToEdit[1].id
             /\ (reminders[i].dueDate # reminders'[i].dueDate
                    \/ reminders[i].dueTime # reminders'[i].dueTime)
             /\ reminders'[i].dueDate * UnitsPerDay + reminders'[i].dueTime > now) =>
                /\ reminders'[i].notified = FALSE
                /\ reminders'[i].snoozeUntil = Null
                /\ \A t \in now..(MaxTime + SnoozeDelay) :
                       (t >= reminders'[i].dueDate * UnitsPerDay + reminders'[i].dueTime)
                           => reminders'[i] \in Range(DueRemindersOf(reminders', t))]_vars

\* a reminder that has fired (its toast is displayed) was rescheduled to a
\* later instant by the form and is armed again
C9_Witness ==
    /\ ~isReminderModalOpen
    /\ reminderToEdit = <<>>
    /\ \E i \in 1..Len(reminders) :
           /\ reminders[i].id \in Range(activeNotifications)
           /\ reminders[i].id < now
           /\ reminders[i].dueDate * UnitsPerDay + reminders[i].dueTime > now
           /\ ~reminders[i].notified
           /\ reminders[i].snoozeUntil = Null

\* C10: saving an edit that leaves the due date/time unchanged, or changes it
\* to an instant that is not in the future, leaves the notified and snoozeUntil
\* values of the store reminder as they are at the moment of submission.
C10_EditPreserves ==
    [][(SubmitStep /\ reminderToEdit # <<>>) =>
        \A i \in 1..Len(reminders) :
            (/\ reminders[i].id = reminderToEdit[1].id
             /\ \/ (reminders[i].dueDate = reminders'[i].dueDate
                        /\ reminders[i].dueTime = reminders'[i].dueTime)
                \/ reminders'[i].dueDate * UnitsPerDay + reminders'[i].dueTime <= now) =>
                /\ reminders'[i].notified = reminders[i].notified
                /\ reminders'[i].snoozeUntil = reminders[i].snoozeUntil]_vars

\* C11: while the application is open, a reminder that becomes eligible (due,
\* not notified, not snoozed) is fired within one poll interval of becoming
\* eligible, whatever the user does at the forms and toasts meanwhile: no
\* reminder of the store is still eligible more than one poll interval after
\* its due-instant.
C11_BoundedLatency ==
    \A i \in 1..Len(reminders) :
        (/\ reminders[i].dueDate * UnitsPerDay + reminders[i].dueTime <= now
         /\ ~reminders[i].notified
         /\ reminders[i].snoozeUntil = Null) =>
            now - (reminders[i].dueDate * UnitsPerDay + reminders[i].dueTime)
                <= PollInterval

\* C12: every evaluation reads the reminder store as it is at the time of the
\* tick: the list the interval's checkReminders maps over is the current store,
\* so a tick fires only reminders that are in the store as they are now (none
\* deleted, none with a pre-edit due date) and writes back the current store
\* with nothing but notified flags changed.
C12_FreshSnapshot ==
    /\ [](interval # <<>> => interval[1].reminders = reminders)
    /\ [][CheckRemindersStep =>
            /\ Range(dueReminders') \subseteq Range(reminders)
            /\ Len(reminders') = Len(reminders)
            /\ \A i \in 1..Len(reminders) :
                   [reminders'[i] EXCEPT !.notified = FALSE] =
                       [reminders[i] EXCEPT !.notified = FALSE]]_vars

\* a tick fired the only reminder of the store after the snooze the user gave
\* it had ended
C12_Witness ==
    /\ Len(reminders) = 1
    /\ Len(dueReminders) = 1
    /\ dueReminders[1].snoozeUntil # Null
    /\ dueReminders[1].snoozeUntil <= now
    /\ reminders[1] = [dueReminders[1] EXCEPT !.notified = TRUE]

C14_ToastsInStore == Range(activeNotifications) \subseteq IdsOf(reminders)

C17_AudioCue ==
    [][CheckRemindersStep =>
        LET audible == SelectSeq(dueReminders',
                                 LAMBDA r : r.notificationSound # "none")
        IN  audioCues' = [i \in 1..Len(audible) |-> audible[i].notificationSound]]_vars

\* C18: for the reminders fired while the application is hidden and
\* notification permission is not granted, no OS notification is emitted and no
\* toast is added, each is marked notified in the store, and the audio cue of
\* its notificationSound is played for every sound other than none.
C18_PermissionDenied ==
    [][(CheckRemindersStep /\ hidden /\ permission # "granted") =>
        /\ osNotifications' = <<>>
        /\ activeNotifications' = activeNotifications
        /\ \A i \in 1..Len(dueReminders') :
               [dueReminders'[i] EXCEPT !.notified = TRUE] \in Range(reminders')
        /\ \A i \in 1..Len(dueReminders') :
               dueReminders'[i].notificationSound # "none" =>
                   \E j \in 1..Len(audioCues') :
                       audioCues'[j] = dueReminders'[i].notificationSound]_vars

\* C19: a side effect that fails while one fired reminder is routed does not
\* abort the tick: the store ends the tick with exactly the fired reminders
\* marked notified and every other fired reminder is routed, so at most one
\* fired reminder of the tick is left without its OS notification, without its
\* toast or without its tone or vibration.
C19_FailureIsolated ==
    [][dueReminders' # <<>> =>
        /\ reminders' =
               [i \in 1..Len(reminders) |->
                   IF reminders[i].id \in IdsOf(dueReminders')
                   THEN [reminders[i] EXCEPT !.notified = TRUE]
                   ELSE reminders[i]]
        /\ (hidden /\ permission = "granted") =>
               Len(osNotifications') >= Len(dueReminders') - 1
        /\ ~hidden =>
               Cardinality(IdsOf(dueReminders') \cap Range(activeNotifications'))
                   >= Len(dueReminders') - 1
        /\ Len(audioCues') >=
               Len(SelectSeq(dueReminders', LAMBDA r :
                       r.notificationSound \in {"beep", "chime", "vibrate"})) - 1]_vars

\* C20: after logout the interval is cleared and no evaluation runs until a
\* user logs in again: while nobody is logged in no step fires a reminder,
\* writes the persisted store (so none is marked notified) or produces a toast,
\* an OS notification or an audio cue.
C20_NoTickAfterLogout ==
    /\ [](user = NoUser => interval = <<>>)
    /\ [][user = NoUser =>
            /\ stored' = stored
            /\ dueReminders' = <<>>
            /\ osNotifications' = <<>>
            /\ audioCues' = <<>>
            /\ activeNotifications' = <<>>]_vars

\* the user has logged out of a session in which a tick fired a reminder, and
\* another reminder of the persisted store has become due since and waits
C20_Witness ==
    /\ user = NoUser
    /\ everFired # {}
    /\ \E i \in 1..Len(stored) :
           /\ stored[i].dueDate * UnitsPerDay + stored[i].dueTime <= now
           /\ ~stored[i].notified
           /\ stored[i].id \notin everFired

\* C21: in every reachable state every reminder with notified = true has a
\* due-instant <= now: no sequence of create, edit, snooze, dismiss and tick
\* leaves a reminder marked notified while its due-instant is in the future.
C21_NotifiedIsDue ==
    \A i \in 1..Len(reminders) :
        reminders[i].notified =>
            reminders[i].dueDate * UnitsPerDay + reminders[i].dueTime <= now

\* a reminder that has fired was moved by the form to another instant that is
\* not in the future and is still notified, next to one re-armed for later
C21_Witness ==
    /\ Len(reminders) = 2
    /\ \E i, j \in 1..2 :
           /\ reminders[i].notified
           /\ reminders[i].id < reminders[i].dueDate * UnitsPerDay + reminders[i].dueTime
           /\ reminders[i].dueDate * UnitsPerDay + reminders[i].dueTime = now
           /\ ~reminders[j].notified
           /\ reminders[j].id \in Range(activeNotifications)
           /\ reminders[j].dueDate * UnitsPerDay + reminders[j].dueTime > now

\* C22: saving an edit keeps the reminder's id and its position in the store
\* and changes no other reminder: after the save the store has the same ids in
\* the same order as before and only the edited reminder's fields differ.
C22_EditFrame ==
    [][(SubmitStep /\ reminderToEdit # <<>>) =>
        /\ Len(reminders') = Len(reminders)
        /\ \A i \in 1..Len(reminders) :
               /\ reminders'[i].id = reminders[i].id
               /\ reminders[i].id # reminderToEdit[1].id => reminders'[i] = reminders[i]]_vars

\* a step of TransactionModal.handleSubmit or of handleDeleteTransaction
TransactionWriteStep ==
    \/ \E type \in TransactionTypes, amount \in TxAmounts, date \in TxDates :
           TransactionModalSubmitStep(type, amount, date)
    \/ \E id \in IdsOf(transactions) : HandleDeleteTransactionStep(id)

\* C23: the transaction store, in memory and persisted, is changed by no
\* step of the engine or of the reminder handlers (tick, firing, routing,
\* snooze, dismiss, reminder create/edit/delete, clock, visibility): every
\* step that changes it is a transaction save or a transaction delete.
C23_TransactionsUntouched ==
    [][(transactions' # transactions \/ storedTransactions' # storedTransactions)
           => TransactionWriteStep]_vars

\* a tick has just fired a reminder while the transaction store holds a
\* transaction
C23_Witness ==
    /\ Len(transactions) > 0
    /\ storedTransactions = transactions
    /\ Len(dueReminders) > 0
    /\ \E i \in 1..Len(reminders) : reminders[i].notified

\* C24: a login over a reminders item of any form mounts the application
\* with a list: no render throws, a reminders item that is not an array of
\* reminders (absent, not JSON, the text null, an object) gives the empty
\* list, and the interval that runs checkReminders is installed.
C24_MalformedLoadsEmpty ==
    /\ ~crashed
    /\ (user # NoUser /\ storedText # "array") =>
           (reminders = <<>> /\ interval # <<>>)

\* the calendar year and month written in a date field YYYY-MM-DD
CalendarYear(date) == (date \div DaysPerMonth) \div MonthsPerYear
CalendarMonth(date) == (date \div DaysPerMonth) % MonthsPerYear

\* date is a day of the month viewed
InViewedMonth(date) ==
    /\ CalendarYear(date) = GetFullYear(viewDate)
    /\ CalendarMonth(date) = GetMonth(viewDate)

\* C25: in every time zone the view lists exactly the transactions and the
\* reminders whose date field names a day of the year and month viewed: an
\* item dated the last day of a month is in that month's view and not in the
\* next month's, an item dated the first day is not in the previous month's.
C25_MonthFilter ==
    /\ FilteredTransactions(transactions, viewDate, timeZone)
           = SelectSeq(transactions, LAMBDA t : InViewedMonth(t.date))
    /\ FilteredReminders(reminders, viewDate, timeZone)
           = SelectSeq(reminders, LAMBDA r : InViewedMonth(r.dueDate))

\* the transactions of ts of the given type dated in the month viewed
OfViewedMonth(ts, type) ==
    SelectSeq(ts, LAMBDA t : t.type = type /\ InViewedMonth(t.date))

\* C26: the totals shown are those of the transactions dated in the month
\* viewed: totalIncome the sum of the amounts of its income transactions,
\* totalExpenses the sum of the amounts of its expense transactions, balance
\* their difference (0, 0, 0 for a month without transactions); a transaction
\* dated in another month contributes to none of them.
C26_SummaryTotals ==
    LET shown == Totals(FilteredTransactions(transactions, viewDate, timeZone))
        income == SumAmounts(OfViewedMonth(transactions, "income"))
        expenses == SumAmounts(OfViewedMonth(transactions, "expense"))
    IN  /\ shown.totalIncome = income
        /\ shown.totalExpenses = expenses
        /\ shown.balance = income - expenses

\* C27: a reminder that a tick has fired is fired by no later tick unless it
\* was snoozed, rescheduled to a future instant, or deleted and created anew
\* in between; saving an edit that keeps its due date/time, from a form
\* opened before or after the tick that fired it, does not re-arm it.
C27_NoDuplicateAlert ==
    [][CheckRemindersStep => IdsOf(dueReminders') \cap everFired = {}]_vars

\* a step of MonthNavigator: previous month, next month, go to current month
NavigationStep == ChangeMonthBack \/ ChangeMonthForward \/ GoToCurrentMonth

\* the tick fires every eligible reminder of the store and no other, in the
\* month viewed or not
TicksIgnoreView ==
    [][CheckRemindersStep =>
        IdsOf(dueReminders') =
            {reminders[i].id : i \in {j \in 1..Len(reminders) : NewlyDue(reminders[j], now)}}]_vars

\* navigation changes neither store nor toasts and fires nothing
NavigationFrame ==
    [][NavigationStep =>
        /\ UNCHANGED <<reminders, stored, activeNotifications, transactions,
                       storedTransactions>>
        /\ dueReminders' = <<>>]_vars

\* navigation does not move the next evaluation: the time left until the
\* interval runs checkReminders is the same before and after
NavigationKeepsTimer ==
    [][NavigationStep =>
        PollInterval - interval'[1].elapsed = PollInterval - interval[1].elapsed]_vars

\* C28: due detection does not depend on the month viewed: every tick
\* evaluates the whole store, and a change of the month viewed (previous,
\* next, go to current) changes neither the store, nor which reminders fire,
\* nor when the next evaluation fires them.
C28_ViewIndependence ==
    /\ TicksIgnoreView
    /\ NavigationFrame
    /\ NavigationKeepsTimer

C32_UniqueIds ==
    /\ \A i, j \in 1..Len(reminders) : reminders[i].id = reminders[j].id => i = j
    /\ \A i, j \in 1..Len(stored) : stored[i].id = stored[j].id => i = j

\* two reminders created at different instants, one fired and one snoozed
C32_Witness ==
    /\ Len(reminders) = 2
    /\ reminders[1].id # reminders[2].id
    /\ \E i \in 1..2 : reminders[i].notified
    /\ \E i \in 1..2 : reminders[i].snoozeUntil # Null

\* C33: submitting the Add form appends exactly one reminder, with
\* notified = false and snoozeUntil = null, and keeps every reminder of the
\* store in place, whatever the clock reads, also when it reads what it read
\* at an earlier creation.
C33_CreateAppends ==
    [][(SubmitStep /\ reminderToEdit = <<>>) =>
        /\ Len(reminders') = Len(reminders) + 1
        /\ \A i \in 1..Len(reminders) : reminders'[i] = reminders[i]
        /\ ~reminders'[Len(reminders')].notified
        /\ reminders'[Len(reminders')].snoozeUntil = Null]_vars

\* C34: in every reachable state a reminder whose snooze window is open
\* (snoozeUntil set and now < snoozeUntil) is not notified, in memory and
\* persisted.
C34_NotNotifiedWhileSnoozed ==
    /\ \A i \in 1..Len(reminders) :
           (reminders[i].snoozeUntil # Null /\ now < reminders[i].snoozeUntil)
               => ~reminders[i].notified
    /\ \A i \in 1..Len(stored) :
           (stored[i].snoozeUntil # Null /\ now < stored[i].snoozeUntil)
               => ~stored[i].notified

\* a snoozed reminder whose window has ended has fired again, while the
\* window of another snoozed reminder is still open
C34_Witness ==
    /\ \E i \in 1..Len(reminders) :
           /\ reminders[i].notified
           /\ reminders[i].snoozeUntil # Null
           /\ now >= reminders[i].snoozeUntil
    /\ \E i \in 1..Len(reminders) :
           /\ ~reminders[i].notified
           /\ reminders[i].snoozeUntil # Null
           /\ now < reminders[i].snoozeUntil

\* the keys of the items of the accounts other than username
KeysOfOthers(username) == {k \in ItemKeys : k[2] # username}

\* C35: per-user isolation.  No step changes an item stored for an account
\* other than the one logged in; what is mounted for the logged-in account,
\* and every reminder a tick fires, is read from the items of that account;
\* a login mounts the two items of its account as they are stored, so a
\* store is found exactly as its account left it.
C35_PerUserIsolation ==
    /\ [](Mounted =>
            /\ reminders = items[ItemKey("reminders", user)]
            /\ stored = items[ItemKey("reminders", user)]
            /\ transactions = items[ItemKey("transactions", user)]
            /\ storedTransactions = items[ItemKey("transactions", user)])
    /\ [][/\ \A k \in KeysOfOthers(user) : items'[k] = items[k]
          /\ user = NoUser => items' = items
          /\ user' = NoUser => items' = items
          /\ \A i \in 1..Len(dueReminders') :
                 dueReminders'[i] \in Range(items[ItemKey("reminders", user)])
          /\ (user = NoUser /\ user' # NoUser) =>
                 /\ reminders' = items[ItemKey("reminders", user')]
                 /\ transactions' = items[ItemKey("transactions", user')]]_vars

\* the second account is logged in with a reminder of its own that a tick
\* has just fired, while the first account has a different reminder and a
\* transaction stored
C35_Witness ==
    /\ user = "u2"
    /\ Len(reminders) = 1
    /\ Len(dueReminders) = 1
    /\ Len(items[ItemKey("reminders", "u1")]) = 1
    /\ items[ItemKey("reminders", "u1")] # items[ItemKey("reminders", "u2")]
    /\ Len(items[ItemKey("transactions", "u1")]) = 1
    /\ items[ItemKey("transactions", "u2")] = <<>>

\* C36: a signup with an empty username or password, or with a username
\* that is already registered, leaves the credential map and the current
\* user unchanged; a successful signup adds exactly that username with its
\* password, makes it the current user and changes no other entry.
C36_Signup ==
    [][\A username \in Accounts \cup {""}, password \in Passwords \cup {""} :
          SignupStep(username, password) =>
              IF username = "" \/ password = "" \/ username \in DOMAIN users
              THEN /\ users' = users
                   /\ user' = user
              ELSE /\ DOMAIN users' = DOMAIN users \cup {username}
                   /\ users'[username] = password
                   /\ \A n \in DOMAIN users : users'[n] = users[n]
                   /\ user' = username]_vars

\* two accounts have signed up with different passwords, and a further
\* signup under one of the two names has just been rejected
C36_Witness ==
    /\ user = NoUser
    /\ authError = "exists"
    /\ DOMAIN users = Accounts
    /\ users["u1"] # users["u2"]

\* the expense transactions of category c dated in the month viewed
ExpensesOfCategory(c) ==
    SelectSeq(OfViewedMonth(transactions, "expense"), LAMBDA t : t.category = c)

RECURSIVE SumValues(_, _)
SumValues(data, names) ==
    IF names = {} THEN 0
    ELSE LET c == CHOOSE x \in names : TRUE
         IN  data[c].n + SumValues(data, names \ {c})

\* C37: the pie chart has one value for each category with an expense in the
\* month viewed, the value is the sum of the amounts of the expenses of the
\* month in that category, and the values add up to totalExpenses.
C37_ExpenseBreakdown ==
    LET data == DashboardExpenseData
        shown == Totals(FilteredTransactions(transactions, viewDate, timeZone))
    IN  /\ DOMAIN data = {c \in Categories : ExpensesOfCategory(c) # <<>>}
        /\ \A c \in DOMAIN data :
               data[c] = NumberValue(SumAmounts(ExpensesOfCategory(c)))
        /\ SumValues(data, DOMAIN data) = shown.totalExpenses
====
